---- MODULE Spec2Model ----
(***************************************************************************)
(* Model of the parallel batch engine of calculation/xtb_calculator.py:    *)
(* XTBCalculator.calculate_batch stages one directory per input file,      *)
(* maps _execute_xtb_commands over the work items with a process pool and  *)
(* folds the ordered result strings into a summary dictionary.             *)
(***************************************************************************)
EXTENDS Integers, Sequences, FiniteSets, TLC

VARIABLES
    pc,           \* position of the caller inside calculate_batch
    xyz_files,    \* argument xyz_files: the list of input paths
    commands,     \* self.commands: the list of command templates
    config,       \* the value of 'command' in the xtb section of the configuration
    export,       \* run_xtb_calculation: args.out_xyz, the directories visited, save_dir
    max_workers,  \* self.max_workers
    fs,           \* output_dir: molecule directory name -> "absent" or its files
    work_items,   \* the list of (molecule_dir, xyz_filename) tuples
    task,         \* number of work items the pool has handed to workers
    worker,       \* per pool process: the unit it runs, its loop index, child process
    unsorted,     \* IMapIterator: results that arrived ahead of their turn
    items,        \* IMapIterator: results ready in submission order
    ret,          \* what calculate_batch returned or raised
    outcome,      \* per unit: what _execute_xtb_commands returned for it
    launched,     \* per unit: the commands whose subprocess was started, in order
    exits,        \* per unit: the exit statuses of its finished subprocesses, in order
    reordered     \* some result reached the iterator ahead of an earlier unit's

vars == <<pc, xyz_files, commands, config, export, max_workers, fs, work_items, task, worker,
          unsorted, items, ret, outcome, launched, exits, reordered>>

----------------------------------------------------------------------------
(* Bounds of the model *)

MaxFiles == 3
MaxCmds == 3
MaxW == 2
MaxRuns == 6
CpuCount == 2

(* min(cpu_count(), 30) *)
PoolCap == 30

----------------------------------------------------------------------------
(* Paths, file names and command templates *)

SrcDirs == {"a", "b"}
FileNames == {"m1.xyz", "m2.xyz", "m3.xyz"}

(* Path.stem: the file name without its last suffix *)
Stem(name) ==
    CASE name = "m1.xyz" -> "m1"
      [] name = "m2.xyz" -> "m2"
      [] name = "m3.xyz" -> "m3"
      [] OTHER -> name

(* the input files: three in one source directory, and one in another     *)
(* directory under the name of the first                                  *)
Paths == {p \in [dir : SrcDirs, name : FileNames] : p.dir = "b" => p.name = "m1.xyz"}

MolDirs == {Stem(n) : n \in FileNames}

(* A template is the list of its whitespace separated words; "{}" is the   *)
(* placeholder and "{x}" any other replacement field.                      *)
T_opt == <<"xtb", "{}", "--opt">>
T_sp == <<"xtb", "xtbopt.xyz", "--hess">>
T_two == <<"xtb", "{}", "{x}">>
T_dbl == <<"xtb", "{}", "{}">>
T_nox == <<"nox", "{}">>
T_empty == << >>

Templates == {T_opt, T_sp, T_two, T_dbl, T_nox, T_empty}

(* the programs found on PATH *)
Installed == {"xtb"}

SeqsUpTo(S, n) == UNION {[1..k -> S] : k \in 0..n}

(* The k-th distinct file name of a list is the k-th name of FileNames:    *)
(* lists that differ only by renaming the molecules behave alike.          *)
Canonical(s) ==
    /\ \A i \in DOMAIN s : s[i].name = "m2.xyz" =>
           \E j \in 1..(i-1) : s[j].name = "m1.xyz"
    /\ \A i \in DOMAIN s : s[i].name = "m3.xyz" =>
           \E j \in 1..(i-1) : s[j].name = "m2.xyz"
    /\ \A i \in DOMAIN s : s[i].dir = "b" =>
           \E j \in 1..(i-1) : s[j].dir = "a" /\ s[j].name = s[i].name

(* The lists of distinct input paths *)
InputLists ==
    {s \in SeqsUpTo(Paths, MaxFiles) :
        Canonical(s) /\ \A i, j \in DOMAIN s : i # j => s[i] # s[j]}

(* The lists of self.commands. A template that makes every unit raise ends *)
(* the chain where it stands, so such a template stands last.              *)
CommandLists ==
    {c \in SeqsUpTo(Templates, MaxCmds) :
        c # << >> /\ \A k \in 1..(Len(c) - 1) : c[k] \in {T_opt, T_sp}}

(* The value under 'command' in the xtb section of the YAML file: absent,  *)
(* null, a string (read as its characters when iterated), or a list whose  *)
(* entries are strings, given as templates, or something else.             *)
NonString == [isstr |-> FALSE, words |-> << >>]

StringEntry(t) == [isstr |-> TRUE, words |-> t]

Entries == {StringEntry(t) : t \in Templates} \cup {NonString}

CommandValue(kind, entries) == [kind |-> kind, entries |-> entries]

RawConfigs ==
    {CommandValue("absent", << >>), CommandValue("null", << >>),
     CommandValue("str", <<StringEntry(<<"x">>), StringEntry(<<"t">>), StringEntry(<<"b">>)>>)}
    \cup {CommandValue("list", e) : e \in SeqsUpTo(Entries, MaxCmds)}

(* the configuration that holds the list c of templates *)
ConfigOf(c) == CommandValue("list", [k \in DOMAIN c |-> StringEntry(c[k])])

(* A directory of output_dir: whether it exists and, per file name, who wrote *)
(* the file (by: a unit, 0 for what was there before the run) and from what.  *)
NoFiles == << >>
Absent == [exists |-> FALSE, files |-> NoFiles]
Content(by, src) == [by |-> by, src |-> src]
StaleDir == [exists |-> TRUE, files |-> [n \in {"xtbopt.xyz"} |-> Content(0, "stale")]]

(* xtb_step_{i}.log: the log numbered by the loop index itself *)
LogNameFromZero(n) ==
    CASE n = 1 -> "xtb_step_0.log"
      [] n = 2 -> "xtb_step_1.log"
      [] n = 3 -> "xtb_step_2.log"
      [] n = 4 -> "xtb_step_3.log"
      [] OTHER -> "xtb_step_n.log"

(* xtb_step_{i+1}.log *)
LogName(n) ==
    CASE n = 1 -> "xtb_step_1.log"
      [] n = 2 -> "xtb_step_2.log"
      [] n = 3 -> "xtb_step_3.log"
      [] n = 4 -> "xtb_step_4.log"
      [] OTHER -> "xtb_step_n.log"

----------------------------------------------------------------------------
(* Pure helpers *)

(* get_xtb_config without the loop over the entries *)
GetXtbConfigRaisesUntyped(v) ==
    \/ v.kind = "absent"
    \/ v.kind # "list"
    \/ v.entries = << >>

(* ConfigManager.get_xtb_config, config_manager.py lines 62-75: 'command'  *)
(* not in xtb_config; not isinstance(commands, list) or not commands; an   *)
(* entry that is not a str. A missing placeholder only logs a warning.     *)
GetXtbConfigRaises(v) ==
    \/ v.kind = "absent"
    \/ v.kind # "list"
    \/ v.entries = << >>
    \/ \E k \in DOMAIN v.entries : ~v.entries[k].isstr

(* config.get('command', []), line 32 *)
ConfigGet(v) == IF v.kind = "absent" THEN CommandValue("list", << >>) ELSE v

(* not self.commands, line 35: None, '' and [] are falsy *)
InitRaises(v) == ConfigGet(v).kind = "null" \/ ConfigGet(v).entries = << >>

(* self.commands as the loop of line 75 will read it *)
CommandsOf(v) == [k \in DOMAIN ConfigGet(v).entries |-> ConfigGet(v).entries[k].words]

(* the directory removed and made anew: shutil.rmtree before mkdir *)
MkdirFresh(d) == [exists |-> TRUE, files |-> NoFiles]

(* molecule_dir.mkdir(exist_ok=True), line 51: a directory that exists is  *)
(* left as it is                                                           *)
Mkdir(d) == [exists |-> TRUE, files |-> d.files]

(* dict[key] = val on a directory listing *)
Put(files, name, val) ==
    [n \in (DOMAIN files) \cup {name} |-> IF n = name THEN val ELSE files[n]]

Min(a, b) == IF a <= b THEN a ELSE b

(* max_workers or min(cpu_count(), 30): None and 0 are both falsy *)
MaxWorkersOf(arg) == IF arg # 0 THEN arg ELSE Min(CpuCount, PoolCap)

(* '{}' in command_template *)
HasPlaceholder(t) == \E k \in DOMAIN t : t[k] = "{}"

(* a formatter that leaves what it cannot fill *)
FormatRaisesNever(t) == FALSE

(* str.format(xyz_filename) with one positional argument raises IndexError *)
(* for a second "{}" and KeyError for a named field                        *)
FormatRaises(t) ==
    \/ Cardinality({k \in DOMAIN t : t[k] = "{}"}) > 1
    \/ \E k \in DOMAIN t : t[k] = "{x}"

Format(t, name) == [k \in DOMAIN t |-> IF t[k] = "{}" THEN name ELSE t[k]]

(* subprocess.run(command.split(), ...) raises before any process runs:    *)
(* IndexError for an empty argument list, FileNotFoundError for a program  *)
(* that is not installed                                                   *)
RunRaises(command) == command = << >> \/ command[1] \notin Installed

(* the placeholder filled with the molecule name in place of the file name *)
ResolveCommandStem(t, name) == IF HasPlaceholder(t) THEN Format(t, Stem(name)) ELSE t

(* lines 77-80 *)
ResolveCommand(t, name) == IF HasPlaceholder(t) THEN Format(t, name) ELSE t

(* the returned strings, field by field *)
Result(tag, kind, name, dir, cmd, why) ==
    [tag |-> tag, kind |-> kind, name |-> name, dir |-> dir, cmd |-> cmd, why |-> why]

SuccessResult(dir, name) == Result("SUCCESS", "", name, dir, <<>>, "")

CommandFailedResult(name, cmd) ==
    Result("ERROR", "XTB command failed", name, "", cmd, "returned non-zero exit status")

ProcessingErrorResult(name, dir, why) ==
    Result("ERROR", "Processing error", name, dir, <<>>, why)

(* r.startswith("SUCCESS") *)
StartsWithSuccess(r) == r.tag = "SUCCESS"

RECURSIVE CountSuccess(_)
CountSuccess(rs) ==
    IF rs = <<>> THEN 0
    ELSE (IF StartsWithSuccess(Head(rs)) THEN 1 ELSE 0) + CountSuccess(Tail(rs))

(* a summary that counts as errors only the results of one error prefix *)
BatchResultByPrefix(files, rs) ==
    [total |-> Len(files), success |-> CountSuccess(rs),
     errors |-> Cardinality({k \in DOMAIN rs : rs[k].kind = "XTB command failed"}),
     results |-> rs]

(* lines 147-162 *)
BatchResult(files, rs) ==
    [total |-> Len(files), success |-> CountSuccess(rs),
     errors |-> Len(rs) - CountSuccess(rs), results |-> rs]

Idle == [unit |-> 0, i |-> 0, proc |-> FALSE]

NoResult == Result("none", "", "", "", <<>>, "")

NoReturn == [kind |-> "none", value |-> <<>>]

(* run_xtb_calculation before its export pass: args.out_xyz, the unit      *)
(* directories the loop of line 145 has visited, the files of save_dir and *)
(* how the method ended                                                    *)
Export(out_xyz) == [out_xyz |-> out_xyz, seen |-> {}, saved |-> NoFiles, ended |-> ""]

(* glob('*.xyz') in the place of glob('molecule_*.xyz') *)
MoleculeGlobAnyXyz(names) == names \cap FileNames

(* xyz_file.glob('molecule_*.xyz'), line 146. The names m1.xyz and m2.xyz  *)
(* stand for names of the form molecule_<n>.xyz, as the coordinate         *)
(* generation writes them (main.py 77-85); m3.xyz stands for any other.    *)
MoleculeGlob(names) == names \cap {"m1.xyz", "m2.xyz"}

----------------------------------------------------------------------------
(* State after construction of the calculator, before calculate_batch.     *)
(* output_dir may hold the directory of the first molecule, left there by  *)
(* an earlier run together with its xtbopt.xyz.                            *)

Init ==
    /\ pc = "start"
    /\ xyz_files \in InputLists
    /\ commands \in CommandLists
    /\ config = ConfigOf(commands)
    /\ Len(xyz_files) * Len(commands) <= MaxRuns
    /\ max_workers \in {MaxWorkersOf(a) : a \in 0..MaxW}
    /\ fs \in [MolDirs -> {Absent, StaleDir}]
    /\ \A d \in MolDirs : d # "m1" => fs[d] = Absent
    /\ work_items = <<>>
    /\ task = 0
    /\ worker = [w \in 1..max_workers |-> Idle]
    /\ unsorted = [k \in {} |-> 0]
    /\ items = <<>>
    /\ ret = NoReturn
    /\ export = Export(FALSE)
    /\ outcome = [u \in DOMAIN xyz_files |-> NoResult]
    /\ launched = [u \in DOMAIN xyz_files |-> <<>>]
    /\ exits = [u \in DOMAIN xyz_files |-> <<>>]
    /\ reordered = FALSE

----------------------------------------------------------------------------
(* calculate_batch, lines 125-127 and 129-130 *)

Enter ==
    /\ pc = "start"
    /\ IF xyz_files = <<>>
       THEN pc' = "returned" /\ ret' = [kind |-> "empty_dict", value |-> <<>>]
       ELSE pc' = "staging" /\ ret' = ret
    /\ UNCHANGED <<xyz_files, commands, config, export, max_workers, fs, work_items, task, worker,
                   unsorted, items, outcome, launched, exits, reordered>>

(* the file copied next to the molecule directory, not into it *)
Copy2Beside(d, xyz_file) == d

(* shutil.copy2(xyz_file, molecule_dir / xyz_file.name), lines 54-55 *)
Copy2(d, xyz_file) ==
    [d EXCEPT !.files = Put(@, xyz_file.name, Content(0, xyz_file.dir))]

(* the pool created as soon as one file is staged *)
LoopDoneAtFirst(n) == n >= 1

(* for xyz_file in xyz_files, line 134: the loop ends after the last file, *)
(* and only then is line 139 reached                                       *)
LoopDone(n) == n = Len(xyz_files)

(* _prepare_molecule_directory for the next input file, lines 134-136 and  *)
(* 49-57. mkdir(exist_ok=True) and shutil.copy2 raise OSError when the     *)
(* file system refuses; nothing in calculate_batch catches it. The pool is *)
(* created (line 139) once the loop has staged every file.                 *)
Stage ==
    /\ pc = "staging"
    /\ LET xyz_file == xyz_files[Len(work_items) + 1]
           molecule_dir == Stem(xyz_file.name)
           made == Mkdir(fs[molecule_dir])
           copied == Copy2(made, xyz_file)
       IN \E env \in {"ok", "mkdir_fails", "copy_fails"} :
            CASE env = "mkdir_fails" ->
                   /\ pc' = "raised"
                   /\ ret' = [kind |-> "raise", value |-> "OSError"]
                   /\ UNCHANGED <<fs, work_items>>
              [] env = "copy_fails" ->
                   /\ pc' = "raised"
                   /\ ret' = [kind |-> "raise", value |-> "OSError"]
                   /\ fs' = [fs EXCEPT ![molecule_dir] = made]
                   /\ UNCHANGED work_items
              [] OTHER ->
                   /\ fs' = [fs EXCEPT ![molecule_dir] = copied]
                   /\ work_items' = Append(work_items, <<molecule_dir, xyz_file.name>>)
                   /\ pc' = IF LoopDone(Len(work_items) + 1) THEN "imap" ELSE "staging"
                   /\ ret' = ret
    /\ UNCHANGED <<xyz_files, commands, config, export, max_workers, task, worker, unsorted, items,
                   outcome, launched, exits, reordered>>

----------------------------------------------------------------------------
(* The pool: Pool(processes=self.max_workers) and pool.imap, lines 139-144 *)

(* IMapIterator._set: a result whose turn it is goes to the ready list and *)
(* pulls the waiting results that follow it; any other result waits.       *)
RECURSIVE Drain(_, _)
Drain(ready, waiting) ==
    IF Len(ready) + 1 \in DOMAIN waiting
    THEN Drain(Append(ready, waiting[Len(ready) + 1]),
               [k \in DOMAIN waiting \ {Len(ready) + 1} |-> waiting[k]])
    ELSE <<ready, waiting>>

(* imap_unordered: results in the order of their arrival *)
SetResultUnordered(ready, waiting, u, res) == <<Append(ready, res), waiting>>

SetResult(ready, waiting, u, res) ==
    IF u = Len(ready) + 1
    THEN Drain(Append(ready, res), waiting)
    ELSE <<ready, [k \in DOMAIN waiting \cup {u} |-> IF k = u THEN res ELSE waiting[k]]>>

(* an error result that ends the pool and the batch *)
FinishFailFast(w, u, res) ==
    /\ outcome' = [outcome EXCEPT ![u] = res]
    /\ IF res.tag = "ERROR"
       THEN /\ worker' = [v \in DOMAIN worker |-> Idle]
            /\ pc' = "raised"
            /\ ret' = [kind |-> "raise", value |-> "CalculationError"]
            /\ UNCHANGED <<items, unsorted, reordered, task>>
       ELSE /\ worker' = [worker EXCEPT ![w] = Idle]
            /\ items' = SetResult(items, unsorted, u, res)[1]
            /\ unsorted' = SetResult(items, unsorted, u, res)[2]
            /\ reordered' = (reordered \/ u # Len(items) + 1)
            /\ UNCHANGED <<pc, ret, task>>

(* The worker function returns res for unit u: the pool process is free    *)
(* again and the result travels to the iterator of the caller.             *)
Finish(w, u, res) ==
    /\ worker' = [worker EXCEPT ![w] = Idle]
    /\ outcome' = [outcome EXCEPT ![u] = res]
    /\ items' = SetResult(items, unsorted, u, res)[1]
    /\ unsorted' = SetResult(items, unsorted, u, res)[2]
    /\ reordered' = (reordered \/ u # Len(items) + 1)
    /\ UNCHANGED <<pc, ret, task>>

(* lines 102-103 *)
ReturnSuccess(w, u) ==
    Finish(w, u, SuccessResult(work_items[u][1], work_items[u][2]))

(* the handlers in the other order: except Exception catches the          *)
(* CalledProcessError too                                                  *)
ExceptCalledProcessErrorLate(w, u, cmd) ==
    Finish(w, u, ProcessingErrorResult(work_items[u][2], work_items[u][1],
                                       "returned non-zero exit status"))

(* except subprocess.CalledProcessError, lines 105-108 *)
ExceptCalledProcessError(w, u, cmd) ==
    Finish(w, u, CommandFailedResult(work_items[u][2], cmd))

(* no handler: the exception reaches the caller through the iterator and  *)
(* leaving the with block terminates the pool                             *)
ExceptionPropagates(w, u, why) ==
    /\ pc' = "raised"
    /\ ret' = [kind |-> "raise", value |-> why]
    /\ worker' = [v \in DOMAIN worker |-> Idle]
    /\ UNCHANGED <<task, outcome, items, unsorted, reordered>>

(* except Exception, lines 109-112 *)
ExceptException(w, u, why) ==
    Finish(w, u, ProcessingErrorResult(work_items[u][2], work_items[u][1], why))

(* the pool gives up a process that waits for its child and hands its     *)
(* place to the next work item                                             *)
DispatchOverHung(w) ==
    /\ pc = "imap"
    /\ worker[w].proc
    /\ task < Len(work_items)
    /\ task' = task + 1
    /\ worker' = [worker EXCEPT ![w] = [unit |-> task + 1, i |-> 0, proc |-> FALSE]]
    /\ UNCHANGED <<pc, xyz_files, commands, config, export, max_workers, fs, work_items, unsorted,
                   items, ret, outcome, launched, exits, reordered>>

(* a task started on a process that is still busy with another *)
DispatchBusy(w) ==
    /\ pc = "imap"
    /\ task < Len(work_items)
    /\ task' = task + 1
    /\ worker' = [worker EXCEPT ![w] = [unit |-> task + 1, i |-> 0, proc |-> FALSE]]
    /\ UNCHANGED <<pc, xyz_files, commands, config, export, max_workers, fs, work_items, unsorted,
                   items, ret, outcome, launched, exits, reordered>>

(* A free pool process takes the next work item of the task queue. The     *)
(* processes are alike: of the free ones the first takes it.               *)
Dispatch(w) ==
    /\ pc = "imap"
    /\ worker[w] = Idle
    /\ \A v \in 1..(w - 1) : worker[v] # Idle
    /\ task < Len(work_items)
    /\ task' = task + 1
    /\ worker' = [worker EXCEPT ![w] = [unit |-> task + 1, i |-> 0, proc |-> FALSE]]
    /\ UNCHANGED <<pc, xyz_files, commands, config, export, max_workers, fs, work_items, unsorted,
                   items, ret, outcome, launched, exits, reordered>>

(* One pass of the loop body up to the start of the child process, lines   *)
(* 75-94: resolve the template, open the log file, start the command.      *)
Launch(w) ==
    /\ pc \in {"imap", "single"}
    /\ worker[w].unit # 0
    /\ ~worker[w].proc
    /\ LET u == worker[w].unit
           i == worker[w].i
           molecule_dir == work_items[u][1]
           xyz_filename == work_items[u][2]
           command_template == commands[i + 1]
           command == ResolveCommand(command_template, xyz_filename)
           logged == [fs EXCEPT ![molecule_dir].files = Put(@, LogName(i + 1), Content(u, "log"))]
       IN IF HasPlaceholder(command_template) /\ FormatRaises(command_template)
          THEN /\ ExceptException(w, u, "format")
               /\ UNCHANGED <<fs, launched>>
          ELSE \E env \in {"ok", "open_fails"} :
                 CASE env = "open_fails" ->
                        /\ ExceptException(w, u, "open")
                        /\ UNCHANGED <<fs, launched>>
                   [] RunRaises(command) ->
                        /\ ExceptException(w, u, "exec")
                        /\ fs' = logged
                        /\ UNCHANGED launched
                   [] OTHER ->
                        /\ fs' = logged
                        /\ launched' = [launched EXCEPT ![u] = Append(@, command)]
                        /\ worker' = [worker EXCEPT ![w].proc = TRUE]
                        /\ UNCHANGED <<pc, ret, task, outcome, items, unsorted, reordered>>
    /\ UNCHANGED <<xyz_files, commands, config, export, max_workers, work_items, exits>>

(* check=False: no exit status raises *)
CheckNever(status) == FALSE

(* check=True: a non-zero exit status raises CalledProcessError *)
CheckRaises(status) == status # 0

(* the output looked for after every step of a chain of several commands *)
NeedsOutputCheckEveryStep(i) == Len(commands) > 1

(* no step is followed by a look at its output *)
NeedsOutputCheckNever(i) == FALSE

(* line 97 *)
NeedsOutputCheck(i) == i = 0 /\ Len(commands) > 1

(* the file asked to be one written during this run *)
ExpectedOutputFresh(dirs, molecule_dir) ==
    /\ "xtbopt.xyz" \in DOMAIN dirs[molecule_dir].files
    /\ dirs[molecule_dir].files["xtbopt.xyz"].by # 0

(* a test of the directory in place of the file *)
ExpectedOutputDirExists(dirs, molecule_dir) == dirs[molecule_dir].exists

(* line 99: expected_output.exists() *)
ExpectedOutputExists(dirs, molecule_dir) == "xtbopt.xyz" \in DOMAIN dirs[molecule_dir].files

(* What the external program may do about xtbopt.xyz: the optimisation, the *)
(* first command of a chain, writes it or fails to; later commands read it. *)
WritesOutput(i) == IF i = 0 THEN BOOLEAN ELSE {FALSE}

(* The child process of worker w exits, lines 88-103: the process leaves   *)
(* its files behind, subprocess.run returns or raises, the output of the   *)
(* first step is looked for, and the loop goes on or the function returns. *)
ProcExitLeaving(w, status, after) ==
    /\ pc \in {"imap", "single"}
    /\ worker[w].proc
    /\ LET u == worker[w].unit
           i == worker[w].i
           molecule_dir == work_items[u][1]
       IN /\ fs' = after
          /\ exits' = [exits EXCEPT ![u] = Append(@, status)]
          /\ IF CheckRaises(status)
             THEN ExceptCalledProcessError(w, u, launched[u][Len(launched[u])])
             ELSE IF NeedsOutputCheck(i) /\ ~ExpectedOutputExists(after, molecule_dir)
             THEN ExceptException(w, u, "expected output not found")
             ELSE IF i + 1 = Len(commands)
             THEN ReturnSuccess(w, u)
             ELSE /\ worker' = [worker EXCEPT ![w] = [unit |-> u, i |-> i + 1, proc |-> FALSE]]
                  /\ UNCHANGED <<pc, ret, task, outcome, items, unsorted, reordered>>
    /\ UNCHANGED <<xyz_files, commands, config, export, max_workers, work_items, launched>>

(* the process has written xtbopt.xyz in its working directory, or has not *)
ProcExitWith(w, status, wrote) ==
    /\ worker[w].proc
    /\ ProcExitLeaving(w, status,
           IF wrote
           THEN [fs EXCEPT ![work_items[worker[w].unit][1]].files =
                     Put(@, "xtbopt.xyz", Content(worker[w].unit, "xtb"))]
           ELSE fs)

(* the child process exits with any status, having written xtbopt.xyz or not *)
ProcExit(w) ==
    \E status \in {0, 1}, wrote \in BOOLEAN :
        /\ worker[w].proc
        /\ wrote \in WritesOutput(worker[w].i)
        /\ ProcExitWith(w, status, wrote)

(* What the external program does on each input file, fixed once and for   *)
(* all: the exit status of the n-th command and whether the first command  *)
(* writes xtbopt.xyz.                                                      *)
ExitStatusOf(xyz_file, n) ==
    CASE xyz_file.name = "m3.xyz" -> 1
      [] xyz_file.name = "m2.xyz" /\ n > 1 -> 1
      [] OTHER -> 0

ProducesOutput(xyz_file, n) == n = 1 /\ xyz_file.dir = "a"

(* the child process exits as the program does on the unit's input file *)
ProcExitFixed(w) ==
    /\ worker[w].proc
    /\ LET xyz_file == xyz_files[worker[w].unit]
           n == worker[w].i + 1
       IN ProcExitWith(w, ExitStatusOf(xyz_file, n), ProducesOutput(xyz_file, n))

(* list(...) taking what the iterator has so far, with results still to come *)
CollectPartial ==
    /\ pc = "imap"
    /\ items # << >>
    /\ pc' = "returned"
    /\ ret' = [kind |-> "dict", value |-> BatchResult(xyz_files, items)]
    /\ UNCHANGED <<xyz_files, commands, config, export, max_workers, fs, work_items, task, worker,
                   unsorted, items, outcome, launched, exits, reordered>>

(* list(...) has every result, the pool is closed, the results are counted *)
(* and the summary is returned, lines 140-162.                             *)
Collect ==
    /\ pc = "imap"
    /\ Len(items) = Len(work_items)
    /\ pc' = "returned"
    /\ ret' = [kind |-> "dict", value |-> BatchResult(xyz_files, items)]
    /\ UNCHANGED <<xyz_files, commands, config, export, max_workers, fs, work_items, task, worker,
                   unsorted, items, outcome, launched, exits, reordered>>

Next ==
    \/ Enter
    \/ Stage
    \/ \E w \in DOMAIN worker : Dispatch(w)
    \/ \E w \in DOMAIN worker : Launch(w)
    \/ \E w \in DOMAIN worker : ProcExit(w)
    \/ Collect

Spec == Init /\ [][Next]_vars

(* The caller's thread goes on running, every pool process goes on running *)
(* (the pool starts max_workers >= 1 processes and neither imap nor        *)
(* subprocess.run has a timeout), and a started child process exits.       *)
Fairness ==
    /\ WF_vars(Enter)
    /\ WF_vars(Stage)
    /\ WF_vars(Collect)
    /\ \A w \in 1..(MaxW + CpuCount) :
           /\ WF_vars(w \in DOMAIN worker /\ Dispatch(w))
           /\ WF_vars(w \in DOMAIN worker /\ Launch(w))
           /\ WF_vars(w \in DOMAIN worker /\ ProcExit(w))

SpecFair == Spec /\ Fairness

(* The same, but for the child processes of the first pool process, which  *)
(* may never exit: subprocess.run (lines 88-94) is called without timeout. *)
FairnessHung ==
    /\ WF_vars(Enter)
    /\ WF_vars(Stage)
    /\ WF_vars(Collect)
    /\ \A w \in 1..(MaxW + CpuCount) :
           /\ WF_vars(w \in DOMAIN worker /\ Dispatch(w))
           /\ WF_vars(w \in DOMAIN worker /\ Launch(w))
    /\ \A w \in 2..(MaxW + CpuCount) :
           WF_vars(w \in DOMAIN worker /\ ProcExit(w))

(* the hanging is looked at with templates that resolve and start *)
InitHung ==
    /\ Init
    /\ \A k \in DOMAIN commands : commands[k] \in {T_opt, T_sp}

SpecHung == InitHung /\ [][Next]_vars /\ FairnessHung

(* The staging loop alone, lines 133-136, over any list of input paths,   *)
(* a path named twice included, and any directories left by earlier runs. *)
InitStaging ==
    /\ pc = "start"
    /\ xyz_files \in SeqsUpTo(Paths, MaxFiles)
    /\ commands = <<T_opt>>
    /\ config = ConfigOf(commands)
    /\ max_workers = 1
    /\ fs \in [MolDirs -> {Absent, StaleDir}]
    /\ work_items = <<>>
    /\ task = 0
    /\ worker = [w \in 1..max_workers |-> Idle]
    /\ unsorted = [k \in {} |-> 0]
    /\ items = <<>>
    /\ ret = NoReturn
    /\ export = Export(FALSE)
    /\ outcome = [u \in DOMAIN xyz_files |-> NoResult]
    /\ launched = [u \in DOMAIN xyz_files |-> <<>>]
    /\ exits = [u \in DOMAIN xyz_files |-> <<>>]
    /\ reordered = FALSE

NextStaging ==
    \/ Enter
    \/ Stage

SpecStaging == InitStaging /\ [][NextStaging]_vars

(* The batch in a fresh output directory with an external program whose    *)
(* behaviour on each input file is fixed: what is left open is the number  *)
(* of pool processes, the order in which they run and the opening of the   *)
(* log files.                                                              *)
InitFixed ==
    /\ Init
    /\ \A d \in MolDirs : fs[d] = Absent

NextFixed ==
    \/ Enter
    \/ Stage
    \/ \E w \in DOMAIN worker : Dispatch(w)
    \/ \E w \in DOMAIN worker : Launch(w)
    \/ \E w \in DOMAIN worker : ProcExitFixed(w)
    \/ Collect

SpecFixed == InitFixed /\ [][NextFixed]_vars

(* The workflow builds its calculator, main.py lines 39-47: the xtb section *)
(* goes through get_xtb_config and then to XTBCalculator; a caller may     *)
(* also hand a configuration to XTBCalculator directly.                    *)
InitConfig ==
    /\ pc = "config"
    /\ config \in RawConfigs
    /\ xyz_files = << >>
    /\ commands = << >>
    /\ max_workers \in {MaxWorkersOf(a) : a \in 0..MaxW}
    /\ fs = [d \in MolDirs |-> Absent]
    /\ work_items = <<>>
    /\ task = 0
    /\ worker = [w \in 1..max_workers |-> Idle]
    /\ unsorted = [k \in {} |-> 0]
    /\ items = <<>>
    /\ ret = NoReturn
    /\ export = Export(FALSE)
    /\ outcome = << >>
    /\ launched = << >>
    /\ exits = << >>
    /\ reordered = FALSE

GetXtbConfig ==
    /\ pc = "config"
    /\ IF GetXtbConfigRaises(config)
       THEN pc' = "raised" /\ ret' = [kind |-> "raise", value |-> "ConfigurationError"]
       ELSE pc' = "validated" /\ ret' = ret
    /\ UNCHANGED <<xyz_files, commands, config, export, max_workers, fs, work_items, task,
                   worker, unsorted, items, outcome, launched, exits, reordered>>

(* XTBCalculator.__init__, lines 31-36 *)
Construct ==
    /\ pc \in {"config", "validated"}
    /\ IF InitRaises(config)
       THEN /\ pc' = "raised"
            /\ ret' = [kind |-> "raise", value |-> "ValueError"]
            /\ UNCHANGED commands
       ELSE /\ pc' = IF pc = "validated" THEN "constructed" ELSE "constructed_unchecked"
            /\ commands' = CommandsOf(config)
            /\ ret' = ret
    /\ UNCHANGED <<xyz_files, config, export, max_workers, fs, work_items, task, worker,
                   unsorted, items, outcome, launched, exits, reordered>>

NextConfig ==
    \/ GetXtbConfig
    \/ Construct

SpecConfig == InitConfig /\ [][NextConfig]_vars

(* calculate_single, lines 164-177: the caller itself stages the one file  *)
(* and runs _execute_xtb_commands on the work item; it stands here as the  *)
(* first process, with no pool and no queue.                               *)
InitSingle ==
    /\ pc = "single_start"
    /\ xyz_files \in {<<p>> : p \in Paths}
    /\ commands \in CommandLists
    /\ config = ConfigOf(commands)
    /\ max_workers \in {MaxWorkersOf(a) : a \in 0..MaxW}
    /\ fs \in [MolDirs -> {Absent, StaleDir}]
    /\ \A d \in MolDirs : d # "m1" => fs[d] = Absent
    /\ work_items = <<>>
    /\ task = 0
    /\ worker = [w \in 1..max_workers |-> Idle]
    /\ unsorted = [k \in {} |-> 0]
    /\ items = <<>>
    /\ ret = NoReturn
    /\ export = Export(FALSE)
    /\ outcome = [u \in DOMAIN xyz_files |-> NoResult]
    /\ launched = [u \in DOMAIN xyz_files |-> <<>>]
    /\ exits = [u \in DOMAIN xyz_files |-> <<>>]
    /\ reordered = FALSE

(* line 175: _prepare_molecule_directory, outside any try *)
StageSingle ==
    /\ pc = "single_start"
    /\ LET xyz_file == xyz_files[1]
           molecule_dir == Stem(xyz_file.name)
           made == Mkdir(fs[molecule_dir])
       IN \E env \in {"ok", "mkdir_fails", "copy_fails"} :
            CASE env = "mkdir_fails" ->
                   /\ pc' = "raised"
                   /\ ret' = [kind |-> "raise", value |-> "OSError"]
                   /\ UNCHANGED <<fs, work_items, task, worker>>
              [] env = "copy_fails" ->
                   /\ pc' = "raised"
                   /\ ret' = [kind |-> "raise", value |-> "OSError"]
                   /\ fs' = [fs EXCEPT ![molecule_dir] = made]
                   /\ UNCHANGED <<work_items, task, worker>>
              [] OTHER ->
                   /\ fs' = [fs EXCEPT ![molecule_dir] = Copy2(made, xyz_file)]
                   /\ work_items' = <<<<molecule_dir, xyz_file.name>>>>
                   /\ task' = 1
                   /\ worker' = [worker EXCEPT ![1] = [unit |-> 1, i |-> 0, proc |-> FALSE]]
                   /\ pc' = "single"
                   /\ ret' = ret
    /\ UNCHANGED <<xyz_files, commands, config, export, max_workers, unsorted, items,
                   outcome, launched, exits, reordered>>

(* line 177: the string of _execute_xtb_commands is returned as it is *)
ReturnSingle ==
    /\ pc = "single"
    /\ outcome[1] # NoResult
    /\ pc' = "returned"
    /\ ret' = [kind |-> "str", value |-> outcome[1]]
    /\ UNCHANGED <<xyz_files, commands, config, export, max_workers, fs, work_items, task,
                   worker, unsorted, items, outcome, launched, exits, reordered>>

NextSingle ==
    \/ StageSingle
    \/ Launch(1)
    \/ ProcExit(1)
    \/ ReturnSingle

SpecSingle == InitSingle /\ [][NextSingle]_vars

(* run_xtb_calculation, main.py lines 119-161, from the list of files on:  *)
(* the files come out of one directory (list_xyz_files), calculate_batch   *)
(* runs, and the export pass follows when args.out_xyz is set.             *)
InitWorkflow ==
    /\ pc = "start"
    /\ xyz_files \in InputLists
    /\ \A k \in DOMAIN xyz_files : xyz_files[k].dir = "a"
    /\ commands \in CommandLists
    /\ \A k \in DOMAIN commands : commands[k] \in {T_opt, T_sp}
    /\ Len(xyz_files) * Len(commands) <= MaxRuns
    /\ config = ConfigOf(commands)
    /\ export \in {Export(b) : b \in BOOLEAN}
    /\ max_workers \in {MaxWorkersOf(a) : a \in 0..MaxW}
    /\ fs \in [MolDirs -> {Absent, StaleDir}]
    /\ \A d \in MolDirs : d # "m1" => fs[d] = Absent
    /\ work_items = <<>>
    /\ task = 0
    /\ worker = [w \in 1..max_workers |-> Idle]
    /\ unsorted = [k \in {} |-> 0]
    /\ items = <<>>
    /\ ret = NoReturn
    /\ outcome = [u \in DOMAIN xyz_files |-> NoResult]
    /\ launched = [u \in DOMAIN xyz_files |-> <<>>]
    /\ exits = [u \in DOMAIN xyz_files |-> <<>>]
    /\ reordered = FALSE

(* except Exception, lines 159-161: the workflow ends by raising           *)
(* QuantumChemAutomationError around the exception named by cause          *)
WorkflowFails(cause) ==
    /\ pc' = "workflow_failed"
    /\ export' = [export EXCEPT !.ended = cause]

(* calculate_batch has returned, lines 135-140: results['success'] and     *)
(* results['total'] are read for the log line, a KeyError on the empty     *)
(* dict; then the export pass starts if asked for, or the method returns.  *)
AfterBatch ==
    /\ pc = "returned"
    /\ IF ret.kind = "empty_dict"
       THEN WorkflowFails("KeyError")
       ELSE IF export.out_xyz
       THEN pc' = "export" /\ export' = export
       ELSE pc' = "workflow_done" /\ export' = [export EXCEPT !.ended = "returned"]
    /\ UNCHANGED <<xyz_files, commands, config, max_workers, fs, work_items, task,
                   worker, unsorted, items, ret, outcome, launched, exits, reordered>>

(* calculate_batch has raised: the same handler *)
BatchRaised ==
    /\ pc = "raised"
    /\ WorkflowFails(ret.value)
    /\ UNCHANGED <<xyz_files, commands, config, max_workers, fs, work_items, task,
                   worker, unsorted, items, ret, outcome, launched, exits, reordered>>

(* One pass of the loop of lines 145-154 over a child directory of the     *)
(* output directory, in the order iterdir gives them: the first file of    *)
(* the glob is taken, with IndexError on an empty list; if xtbopt.xyz is   *)
(* there, the first two lines of that file and the lines of xtbopt.xyz     *)
(* after its first two are written to save_dir under the file's name.      *)
ExportDir(d) ==
    /\ pc = "export"
    /\ fs[d].exists
    /\ d \notin export.seen
    /\ LET matches == MoleculeGlob(DOMAIN fs[d].files)
       IN IF matches = {}
          THEN WorkflowFails("IndexError")
          ELSE \E name \in matches :
                 /\ pc' = pc
                 /\ export' =
                        [export EXCEPT
                            !.seen = @ \cup {d},
                            !.saved =
                                IF "xtbopt.xyz" \in DOMAIN fs[d].files
                                THEN Put(@, name, [title |-> fs[d].files[name],
                                                   coords |-> fs[d].files["xtbopt.xyz"]])
                                ELSE @]
    /\ UNCHANGED <<xyz_files, commands, config, max_workers, fs, work_items, task,
                   worker, unsorted, items, ret, outcome, launched, exits, reordered>>

(* the loop has visited every directory: return xtb_output_dir, line 157 *)
ExportDone ==
    /\ pc = "export"
    /\ \A d \in MolDirs : fs[d].exists => d \in export.seen
    /\ pc' = "workflow_done"
    /\ export' = [export EXCEPT !.ended = "returned"]
    /\ UNCHANGED <<xyz_files, commands, config, max_workers, fs, work_items, task,
                   worker, unsorted, items, ret, outcome, launched, exits, reordered>>

NextWorkflow ==
    \/ Enter
    \/ Stage
    \/ \E w \in DOMAIN worker : Dispatch(w)
    \/ \E w \in DOMAIN worker : Launch(w)
    \/ \E w \in DOMAIN worker : ProcExit(w)
    \/ Collect
    \/ AfterBatch
    \/ BatchRaised
    \/ \E d \in MolDirs : ExportDir(d)
    \/ ExportDone

SpecWorkflow == InitWorkflow /\ [][NextWorkflow]_vars

(* os.remove on a directory listing *)
Remove(files, name) == [n \in DOMAIN files \ {name} |-> files[n]]

(* A command after the first is any program of the configuration: it may   *)
(* take xtbopt.xyz away (rename it, delete it) before it exits.            *)
ProcExitRemoves(w) ==
    \E status \in {0, 1} :
        /\ worker[w].proc
        /\ worker[w].i >= 1
        /\ ProcExitLeaving(w, status,
               [fs EXCEPT ![work_items[worker[w].unit][1]].files = Remove(@, "xtbopt.xyz")])

NextRemoval ==
    \/ Enter
    \/ Stage
    \/ \E w \in DOMAIN worker : Dispatch(w)
    \/ \E w \in DOMAIN worker : Launch(w)
    \/ \E w \in DOMAIN worker : ProcExit(w)
    \/ \E w \in DOMAIN worker : ProcExitRemoves(w)
    \/ Collect

SpecRemoval == Init /\ [][NextRemoval]_vars

----------------------------------------------------------------------------
(* Properties *)

Returned == pc = "returned" /\ ret.kind = "dict"

Units == DOMAIN xyz_files

DistinctDirs == \A a, b \in DOMAIN work_items : a # b => work_items[a][1] # work_items[b][1]

(* C1: whenever calculate_batch returns for a non-empty input list, the    *)
(* summary has success + errors = total and as many results as inputs.     *)
C1_CountsAddUp ==
    (pc = "returned" /\ xyz_files # << >>) =>
        /\ ret.kind = "dict"
        /\ ret.value.success + ret.value.errors = ret.value.total
        /\ Len(ret.value.results) = Len(xyz_files)

C1_Witness ==
    /\ Returned
    /\ Len(xyz_files) = MaxFiles
    /\ ret.value.success > 0
    /\ ret.value.errors > 0

(* C2: the i-th result of the iterator, and of the returned summary, is    *)
(* the string the worker function returned for the i-th input file, in     *)
(* whatever order the units finished.                                      *)
C2_InputOrder ==
    /\ \A k \in DOMAIN items : items[k] = outcome[k]
    /\ Returned =>
          \A k \in Units :
              /\ ret.value.results[k] = outcome[k]
              /\ ret.value.results[k].name = xyz_files[k].name

C2_Witness ==
    /\ Returned
    /\ reordered
    /\ Len(xyz_files) > 1
    /\ xyz_files[1].name # xyz_files[2].name
    /\ ret.value.results[1].tag # ret.value.results[2].tag

(* C3: the step that records the failure of a unit leaves the caller, the  *)
(* task queue, every other pool process and every other unit as they were, *)
(* and at the return every unit has a recorded result that is a success    *)
(* exactly when all of its own commands ran and exited with status 0.      *)
OwnChainClean(u) ==
    /\ Len(exits[u]) = Len(commands)
    /\ \A k \in DOMAIN exits[u] : exits[u][k] = 0

C3_FailureStep ==
    \A u \in Units :
        (outcome[u] = NoResult /\ outcome'[u].tag = "ERROR") =>
            /\ pc' = pc
            /\ task' = task
            /\ \A w \in DOMAIN worker : worker[w].unit # u => worker'[w] = worker[w]
            /\ \A v \in Units \ {u} :
                   /\ outcome'[v] = outcome[v]
                   /\ launched'[v] = launched[v]
                   /\ exits'[v] = exits[v]

C3_AllRecorded ==
    Returned =>
        \A u \in Units :
            /\ outcome[u] # NoResult
            /\ ret.value.results[u] = outcome[u]
            /\ outcome[u].tag = "SUCCESS" <=> OwnChainClean(u)

C3_FailureContained == [][C3_FailureStep]_vars /\ []C3_AllRecorded

C3_Witness ==
    /\ Returned
    /\ Len(xyz_files) = 3
    /\ Len(commands) = 2
    /\ DistinctDirs
    /\ exits[2] = <<1>>
    /\ outcome[1].tag = "SUCCESS"
    /\ outcome[2].kind = "XTB command failed"
    /\ outcome[3].tag = "SUCCESS"
    /\ ret.value.total = 3
    /\ ret.value.success = 2
    /\ ret.value.errors = 1

(* C4: the units that were handed to the pool and have not returned yet    *)
(* are never more than max_workers.                                        *)
Executing == {u \in Units : u <= task /\ outcome[u] = NoResult}

C4_AtMostW == Cardinality(Executing) <= max_workers

C4_Witness ==
    /\ pc = "imap"
    /\ Cardinality(Executing) = max_workers
    /\ task < Len(work_items)
    /\ \A w \in DOMAIN worker : worker[w].proc

(* C5: a failure to stage one unit never makes calculate_batch raise: the  *)
(* call goes on with the other units.                                      *)
C5_StagingFailureAbortsUnitOnly == pc # "raised"

Finished(u) == outcome[u] # NoResult

HasOutput(molecule_dir) == "xtbopt.xyz" \in DOMAIN fs[molecule_dir].files

LastExit(u) == exits[u][Len(exits[u])]

(* C6: a finished unit is a success exactly when each of its commands ran  *)
(* and exited with status 0 and, for a chain of several commands,          *)
(* xtbopt.xyz is in its directory; its result is the command-failed error  *)
(* exactly when its last command exited non-zero, and the missing-output   *)
(* error exactly when its first command exited 0 and left no xtbopt.xyz.   *)
C6_Classification ==
    \A u \in Units :
        Finished(u) =>
            /\ outcome[u].tag = "SUCCESS" <=>
                   (OwnChainClean(u) /\ (Len(commands) > 1 => HasOutput(work_items[u][1])))
            /\ outcome[u].kind = "XTB command failed" <=>
                   (exits[u] # << >> /\ LastExit(u) # 0)
            /\ (Len(commands) > 1 /\ exits[u] = <<0>> /\ ~HasOutput(work_items[u][1])) =>
                   outcome[u].why = "expected output not found"
            /\ outcome[u].why = "expected output not found" =>
                   (outcome[u].kind = "Processing error" /\ Len(commands) > 1 /\ exits[u] = <<0>>)

C6_Witness ==
    /\ Returned
    /\ Len(commands) > 1
    /\ \E u, v, x \in Units :
           /\ outcome[u].tag = "SUCCESS"
           /\ outcome[v].why = "expected output not found"
           /\ outcome[x].kind = "XTB command failed"

(* C7: the commands a unit has started are the first templates of the      *)
(* list, resolved, in the order of the list; a command is started only     *)
(* when every earlier one has exited; a non-zero exit status is the last   *)
(* exit of its unit, no command follows it and the unit's result is the    *)
(* command-failed error.                                                   *)
C7_InOrder ==
    \A u \in Units :
        /\ Len(launched[u]) <= Len(commands)
        /\ \A k \in DOMAIN launched[u] :
               launched[u][k] = ResolveCommand(commands[k], xyz_files[u].name)
        /\ Len(exits[u]) <= Len(launched[u])
        /\ Len(launched[u]) <= Len(exits[u]) + 1
        /\ \A k \in DOMAIN exits[u] :
               exits[u][k] # 0 =>
                   /\ k = Len(launched[u])
                   /\ Finished(u)
                   /\ outcome[u].kind = "XTB command failed"

C7_Witness ==
    /\ Returned
    /\ \E u, v \in Units :
           /\ exits[u] = <<0, 1>>
           /\ exits[v] = <<1>>
           /\ Len(launched[v]) = 1
           /\ commands[1] # commands[2]

(* C8: in a chain of several commands the second command is started only   *)
(* with xtbopt.xyz in the unit directory; a unit whose first command       *)
(* exited 0 without it has started one command and has an error result.    *)
C8_MissingOutputStops ==
    \A u \in Units :
        Len(commands) > 1 =>
            /\ Len(launched[u]) >= 2 => HasOutput(work_items[u][1])
            /\ (exits[u] = <<0>> /\ ~HasOutput(work_items[u][1])) =>
                   /\ Finished(u)
                   /\ outcome[u].tag = "ERROR"
                   /\ Len(launched[u]) = 1
                   /\ \A w \in DOMAIN worker : worker[w].unit # u

C8_Witness ==
    /\ Returned
    /\ Len(commands) > 1
    /\ \E u \in Units :
           /\ exits[u] = <<0>>
           /\ ~HasOutput(work_items[u][1])
           /\ outcome[u].why = "expected output not found"

(* C9: calculate_batch raises only out of staging, before the pool has     *)
(* taken a task; a unit that a pool process has let go has a result; and a *)
(* unit whose chain was cut short with no non-zero exit status (by an      *)
(* exception) has a Processing error result under its own file name.       *)
CutShort(u) ==
    /\ Len(exits[u]) < Len(commands)
    /\ \A k \in DOMAIN exits[u] : exits[u][k] = 0

C9_ExceptionsCaught ==
    /\ pc = "raised" => (task = 0 /\ Len(work_items) < Len(xyz_files))
    /\ \A u \in Units :
           /\ (u <= task /\ \A w \in DOMAIN worker : worker[w].unit # u) => Finished(u)
           /\ (Finished(u) /\ CutShort(u)) =>
                  /\ outcome[u].tag = "ERROR"
                  /\ outcome[u].kind = "Processing error"
                  /\ outcome[u].name = xyz_files[u].name

C9_Witness ==
    /\ Returned
    /\ \E u, v, x \in Units :
           /\ u < v
           /\ outcome[u].why = "open"
           /\ outcome[v].tag = "SUCCESS"
           /\ outcome[x].kind = "XTB command failed"

(* C10: for a list of distinct input paths, no two work items have the     *)
(* same molecule directory, and no two pool processes ever work in the     *)
(* same directory.                                                         *)
C10_NoSharedDirectory ==
    (\A a, b \in Units : a # b => xyz_files[a] # xyz_files[b]) =>
    /\ DistinctDirs
    /\ \A w, v \in DOMAIN worker :
           (w # v /\ worker[w].unit # 0 /\ worker[v].unit # 0) =>
               work_items[worker[w].unit][1] # work_items[worker[v].unit][1]

(* C11: a call of calculate_batch with an empty list of files ends by      *)
(* raising to its caller, with nothing staged and no task handed out; it   *)
(* never ends by returning a value.                                        *)
C11_EmptyInputIsFatal ==
    (xyz_files = << >> /\ pc # "start") =>
        /\ pc = "raised"
        /\ ret.kind = "raise"
        /\ work_items = << >>
        /\ task = 0

(* C13: when calculate_batch has returned a summary, every file of the     *)
(* list was staged and handed to the pool, no pool process is still at     *)
(* work on a unit, no result is waiting out of turn, and the summary holds *)
(* one SUCCESS or ERROR result for each unit.                              *)
C13_ReturnsAfterAllDone ==
    Returned =>
        /\ Len(work_items) = Len(xyz_files)
        /\ task = Len(work_items)
        /\ \A w \in DOMAIN worker : worker[w] = Idle
        /\ DOMAIN unsorted = {}
        /\ Len(ret.value.results) = Len(xyz_files)
        /\ \A u \in Units :
               /\ Finished(u)
               /\ ret.value.results[u].tag \in {"SUCCESS", "ERROR"}

C13_Witness ==
    /\ Returned
    /\ Len(xyz_files) = 3
    /\ max_workers = 2
    /\ reordered
    /\ \E u, v \in Units : outcome[u].tag = "SUCCESS" /\ outcome[v].tag = "ERROR"

(* C17: every command a unit has started is, word for word, its template:  *)
(* the template itself when no word of it is the placeholder, and          *)
(* otherwise the template with the placeholder word replaced by the name   *)
(* of the file staged in the unit's directory and every other word kept.   *)
C17_CommandResolution ==
    \A u \in Units :
        \A k \in DOMAIN launched[u] :
            LET t == commands[k]
                c == launched[u][k]
            IN IF \A j \in DOMAIN t : t[j] # "{}"
               THEN c = t
               ELSE /\ Len(c) = Len(t)
                    /\ \A j \in DOMAIN t :
                           /\ t[j] = "{}" => c[j] = work_items[u][2]
                           /\ t[j] # "{}" => c[j] = t[j]
                    /\ work_items[u][2] \in DOMAIN fs[work_items[u][1]].files

C17_Witness ==
    \E u \in Units :
        /\ xyz_files[u].name = "m2.xyz"
        /\ launched[u] = << <<"xtb", "m2.xyz", "--opt">>, <<"xtb", "xtbopt.xyz", "--hess">> >>
        /\ commands = <<T_opt, T_sp>>
        /\ Finished(u)

StepLogs == <<"step_1.log", "step_2.log", "step_3.log", "step_4.log">>

XtbStepLogs == <<"xtb_step_1.log", "xtb_step_2.log", "xtb_step_3.log", "xtb_step_4.log">>

FilesOf(u) == fs[work_items[u][1]].files

LogsIn(u) == {n \in DOMAIN FilesOf(u) : FilesOf(u)[n].src = "log"}

(* C18 as the specification words it: the n-th started command of a unit   *)
(* has its output in the file step_<n>.log of the unit's directory.        *)
C18_StepLogNamed ==
    \A u \in Units :
        \A n \in DOMAIN launched[u] : StepLogs[n] \in LogsIn(u)

(* C18: the n-th started command of a unit (n from 1) has its output in    *)
(* the file xtb_step_<n>.log of the unit's directory, written by that unit *)
(* when the directory is its own; the directory holds no log under another *)
(* name, and none numbered beyond the step the unit has reached.           *)
C18_XtbStepLogNamed ==
    \A u \in Units :
        u <= Len(work_items) =>
            /\ \A n \in DOMAIN launched[u] :
                   /\ XtbStepLogs[n] \in LogsIn(u)
                   /\ DistinctDirs => FilesOf(u)[XtbStepLogs[n]].by = u
            /\ LogsIn(u) \subseteq {XtbStepLogs[n] : n \in 1..Len(commands)}
            /\ DistinctDirs =>
                   \A n \in 1..Len(commands) :
                       XtbStepLogs[n] \in LogsIn(u) => n <= Len(exits[u]) + 1

C18_Witness ==
    /\ Returned
    /\ DistinctDirs
    /\ \E u \in Units :
           /\ Len(launched[u]) = 2
           /\ exits[u] = <<0, 0>>
           /\ LogsIn(u) = {"xtb_step_1.log", "xtb_step_2.log"}

(* the step (counted from 1) at which a failed unit stopped *)
FailedStep(u) ==
    IF outcome[u].kind = "XTB command failed" THEN Len(exits[u])
    ELSE IF outcome[u].why = "expected output not found" THEN 1
    ELSE Len(launched[u]) + 1

(* C19: when calculate_batch has returned, the directory of every failed   *)
(* unit holds a file written by that unit's run for the step at which it   *)
(* failed, whatever the kind of the failure.                               *)
C19_FailureDetailOnDisk ==
    Returned =>
        \A u \in Units :
            outcome[u].tag = "ERROR" =>
                /\ XtbStepLogs[FailedStep(u)] \in LogsIn(u)
                /\ DistinctDirs => FilesOf(u)[XtbStepLogs[FailedStep(u)]].by = u

C14_EventuallySummary == <>Returned

(* the index of the file being staged, and its directory *)
Staging == Len(work_items) + 1

StagingDir == Stem(xyz_files[Staging].name)

(* C16: a staging step on a directory that exists keeps every file of the  *)
(* directory but the one it copies, and leaves the other directories as    *)
(* they were; staging a file whose copy from the same path is in the       *)
(* directory changes nothing in output_dir; and at any time each staged    *)
(* path has its file, one input file in all, in its directory, the same    *)
(* directory each time it was staged.                                      *)
C16_StageStep ==
    (pc = "staging" /\ fs[StagingDir].exists) =>
        /\ fs'[StagingDir].exists
        /\ \A n \in DOMAIN fs[StagingDir].files :
               /\ n \in DOMAIN fs'[StagingDir].files
               /\ n # xyz_files[Staging].name =>
                      fs'[StagingDir].files[n] = fs[StagingDir].files[n]
        /\ \A d \in MolDirs \ {StagingDir} : fs'[d] = fs[d]
        /\ (/\ Len(work_items') > Len(work_items)
            /\ xyz_files[Staging].name \in DOMAIN fs[StagingDir].files
            /\ fs[StagingDir].files[xyz_files[Staging].name] =
                   Content(0, xyz_files[Staging].dir)) => fs' = fs

C16_Staged ==
    \A j, k \in DOMAIN work_items :
        /\ fs[work_items[k][1]].exists
        /\ work_items[k][2] \in DOMAIN fs[work_items[k][1]].files
        /\ xyz_files[j] = xyz_files[k] => work_items[j] = work_items[k]
        /\ Cardinality({n \in DOMAIN fs[work_items[k][1]].files :
                            fs[work_items[k][1]].files[n].src \in SrcDirs}) = 1

C16_StagingIdempotent == [][C16_StageStep]_vars /\ []C16_Staged

C16_Witness ==
    /\ pc = "imap"
    /\ xyz_files = <<[dir |-> "a", name |-> "m1.xyz"], [dir |-> "a", name |-> "m1.xyz"]>>
    /\ work_items = << <<"m1", "m1.xyz">>, <<"m1", "m1.xyz">> >>
    /\ DOMAIN fs["m1"].files = {"m1.xyz", "xtbopt.xyz"}
    /\ fs["m1"].files["xtbopt.xyz"] = Content(0, "stale")

(* What one pool process, taking the units one after the other in the      *)
(* order of the list, returns for unit u from its k-th command on.         *)
OutputThere(u) ==
    \E v \in 1..u :
        /\ Stem(xyz_files[v].name) = Stem(xyz_files[u].name)
        /\ ProducesOutput(xyz_files[v], 1)

RECURSIVE InTurnOutcome(_, _)
InTurnOutcome(u, k) ==
    LET name == xyz_files[u].name
        dir == Stem(name)
    IN IF k > Len(commands) THEN SuccessResult(dir, name)
       ELSE IF HasPlaceholder(commands[k]) /\ FormatRaises(commands[k])
       THEN ProcessingErrorResult(name, dir, "format")
       ELSE IF RunRaises(ResolveCommand(commands[k], name))
       THEN ProcessingErrorResult(name, dir, "exec")
       ELSE IF ExitStatusOf(xyz_files[u], k) # 0
       THEN CommandFailedResult(name, ResolveCommand(commands[k], name))
       ELSE IF k = 1 /\ Len(commands) > 1 /\ ~OutputThere(u)
       THEN ProcessingErrorResult(name, dir, "expected output not found")
       ELSE InTurnOutcome(u, k + 1)

InTurnResults == [u \in Units |-> InTurnOutcome(u, 1)]

NoOpenFailed == \A u \in Units : outcome[u].why # "open"

(* C15: with the behaviour of the external program fixed and every log     *)
(* file opened, the summary returned is the one of the units run in turn,  *)
(* whatever the number of pool processes and the order of their steps.     *)
C15_SameForEveryW ==
    (Returned /\ NoOpenFailed) =>
        /\ ret.value.results = InTurnResults
        /\ ret.value.total = Len(xyz_files)
        /\ ret.value.success =
               Cardinality({u \in Units : InTurnResults[u].tag = "SUCCESS"})
        /\ ret.value.errors =
               Cardinality({u \in Units : InTurnResults[u].tag = "ERROR"})

(* a non-empty list of strings *)
WellFormed(v) ==
    /\ v.kind = "list"
    /\ Len(v.entries) > 0
    /\ \A k \in DOMAIN v.entries : v.entries[k].isstr

(* C12: get_xtb_config lets a configuration through only when 'command'    *)
(* is a non-empty list of strings and raises ConfigurationError otherwise; *)
(* XTBCalculator is never constructed from a configuration whose 'command' *)
(* is missing or empty, but raises ValueError; and while the configuration *)
(* is loaded nothing is staged and no task is handed out.                  *)
C12_MalformedRejected ==
    /\ pc \in {"validated", "constructed"} =>
           (WellFormed(config) /\ commands \in {<< >>, CommandsOf(config)})
    /\ (pc = "raised" /\ ret.value = "ConfigurationError") => ~WellFormed(config)
    /\ pc \in {"constructed", "constructed_unchecked"} =>
           /\ config.kind # "absent"
           /\ config.entries # << >>
           /\ commands # << >>
    /\ (pc = "raised" /\ ret.value = "ValueError") =>
           (config.kind \in {"absent", "null"} \/ config.entries = << >>)
    /\ pc \in {"config", "validated", "constructed", "constructed_unchecked"} =>
           (work_items = << >> /\ task = 0 /\ fs = [d \in MolDirs |-> Absent])

C12_Witness ==
    /\ pc = "raised"
    /\ ret.value = "ConfigurationError"
    /\ config.kind = "list"
    /\ Len(config.entries) = 2
    /\ config.entries[1] = StringEntry(T_opt)
    /\ config.entries[2] = NonString

(* a file of any unit directory written by a pool process *)
WorkerWrote ==
    \E d \in MolDirs : \E n \in DOMAIN fs[d].files : fs[d].files[n].by # 0

(* C26: a task is handed to the pool, a command started or a file written  *)
(* by a pool process only when every file of the list is staged; and when  *)
(* calculate_batch has raised out of staging, no task was handed out, no   *)
(* command was started and no pool process has written a file.             *)
C26_StagedBeforePool ==
    /\ (task > 0 \/ WorkerWrote \/ \E u \in Units : launched[u] # << >>) =>
           Len(work_items) = Len(xyz_files)
    /\ pc = "imap" => Len(work_items) = Len(xyz_files)
    /\ (pc = "raised" /\ ret.value = "OSError") =>
           /\ task = 0
           /\ ~WorkerWrote
           /\ \A u \in Units : launched[u] = << >> /\ exits[u] = << >> /\ ~Finished(u)

C26_Witness ==
    /\ pc = "raised"
    /\ ret.value = "OSError"
    /\ Len(xyz_files) = 3
    /\ Len(work_items) = 2
    /\ fs["m3"].exists

(* C27: a unit whose commands have all run and exited 0 is a success,      *)
(* with or without xtbopt.xyz in its directory when a later command took   *)
(* it away or when the chain is a single command; the missing-output error *)
(* is returned only after the first command of a longer chain; and a       *)
(* command after the first that exits 0 is followed by the next command or *)
(* by the success of the unit, whether xtbopt.xyz is there or not.         *)
C27_CheckAfterFirstOnly ==
    \A u \in Units :
        /\ OwnChainClean(u) => (Finished(u) /\ outcome[u].tag = "SUCCESS")
        /\ (Len(commands) = 1 /\ exits[u] = <<0>>) => outcome[u].tag = "SUCCESS"
        /\ outcome[u].why = "expected output not found" =>
               (Len(commands) > 1 /\ exits[u] = <<0>>)
        /\ (Len(exits[u]) >= 2 /\ LastExit(u) = 0 /\ Finished(u)) =>
               outcome[u].why \in {"", "format", "open", "exec"}

C27_Witness ==
    /\ Returned
    /\ Len(commands) = 3
    /\ \E u \in Units :
           /\ exits[u] = <<0, 0, 0>>
           /\ outcome[u].tag = "SUCCESS"
           /\ work_items[u][1] = "m2"
           /\ ~HasOutput("m2")

(* C28: when the first command of a longer chain exits 0, the unit goes on *)
(* to its second command exactly when a file xtbopt.xyz is in its          *)
(* directory at that moment, whoever wrote it and whenever, a file left by *)
(* an earlier run included; it gets the missing-output error only when     *)
(* there is none.                                                          *)
C28_FirstExit ==
    \A u \in Units :
        (Len(commands) > 1 /\ exits[u] = << >> /\ exits'[u] = <<0>>) =>
            IF "xtbopt.xyz" \in DOMAIN fs'[work_items[u][1]].files
            THEN /\ outcome'[u] = NoResult
                 /\ \E w \in DOMAIN worker :
                        worker'[w] = [unit |-> u, i |-> 1, proc |-> FALSE]
            ELSE outcome'[u].why = "expected output not found"

C28_ExistenceOnly == [][C28_FirstExit]_vars

C28_Witness ==
    /\ Returned
    /\ \E u \in Units :
           /\ work_items[u][1] = "m1"
           /\ exits[u] = <<0, 0>>
           /\ launched[u][2] = T_sp
           /\ outcome[u].tag = "SUCCESS"
           /\ fs["m1"].files["xtbopt.xyz"] = Content(0, "stale")

(* the steps whose template holds the placeholder and cannot be formatted *)
BadSteps ==
    {k \in DOMAIN commands :
        \E a \in DOMAIN commands[k] :
            /\ commands[k][a] = "{}"
            /\ \E b \in DOMAIN commands[k] \ {a} : commands[k][b] \in {"{}", "{x}"}}

(* C29: with a template that holds '{}' and a second '{}' or a named field *)
(* at step k, no unit ever starts a command of step k or opens its log,    *)
(* calculate_batch does not raise once the pool runs, and the summary it   *)
(* returns has an ERROR for every unit and success = 0; a unit that        *)
(* reached step k has the Processing error of the format call.             *)
C29_BadTemplateContained ==
    \A k \in BadSteps :
        /\ \A u \in Units :
               /\ Len(launched[u]) < k
               /\ u <= Len(work_items) => XtbStepLogs[k] \notin DOMAIN FilesOf(u)
               /\ Finished(u) => outcome[u].tag = "ERROR"
               /\ (Finished(u) /\ Len(exits[u]) = k - 1 /\ CutShort(u)
                      /\ \A j \in DOMAIN exits[u] : exits[u][j] = 0
                      /\ outcome[u].why # "open"
                      /\ outcome[u].why # "expected output not found") =>
                      outcome[u] = ProcessingErrorResult(xyz_files[u].name, work_items[u][1], "format")
        /\ pc = "raised" => (ret.value = "OSError" /\ task = 0)
        /\ Returned =>
               /\ ret.value.success = 0
               /\ ret.value.errors = Len(xyz_files)
               /\ \A u \in Units : ret.value.results[u].tag = "ERROR"

C29_Witness ==
    /\ Returned
    /\ commands = <<T_opt, T_dbl>>
    /\ Len(xyz_files) = 3
    /\ ret.value.success = 0
    /\ \E u, v \in Units :
           /\ exits[u] = <<0>> /\ outcome[u].why = "format"
           /\ exits[v] = <<1>> /\ outcome[v].kind = "XTB command failed"

(* the step that starts the first command of unit u *)
FirstLaunch(u) == launched[u] = << >> /\ launched'[u] # << >>

(* C24 as the specification words it: when the first command of a unit is  *)
(* started, its directory holds the staged input file and, besides the log *)
(* just opened for the command, nothing else.                              *)
C24_ExactlyInputStep ==
    \A u \in Units :
        FirstLaunch(u) =>
            DOMAIN fs'[work_items[u][1]].files \ {"xtb_step_1.log"} = {work_items[u][2]}

C24_ExactlyInput == [][C24_ExactlyInputStep]_vars

(* C24: when the first command of a unit is started, its directory exists  *)
(* and holds the staged input file and the log opened for the command;     *)
(* whatever else it holds was there before the run or was written for      *)
(* another unit staged into the same directory.                            *)
C24_InputStagedStep ==
    \A u \in Units :
        FirstLaunch(u) =>
            LET d == fs'[work_items[u][1]]
            IN /\ d.exists
               /\ work_items[u][2] \in DOMAIN d.files
               /\ d.files[work_items[u][2]].src \in SrcDirs
               /\ "xtb_step_1.log" \in DOMAIN d.files
               /\ \A n \in DOMAIN d.files \ {work_items[u][2], "xtb_step_1.log"} :
                      \/ d.files[n] = Content(0, "stale")
                      \/ \E v \in Units \ {u} :
                             d.files[n].by = v /\ work_items[v][1] = work_items[u][1]

C24_InputStaged == [][C24_InputStagedStep]_vars

C24_Witness ==
    /\ pc = "imap"
    /\ DistinctDirs
    /\ \E u \in Units :
           /\ work_items[u][1] = "m1"
           /\ Len(launched[u]) = 1
           /\ exits[u] = << >>
           /\ DOMAIN fs["m1"].files = {"m1.xyz", "xtb_step_1.log", "xtbopt.xyz"}
           /\ fs["m1"].files["xtbopt.xyz"] = Content(0, "stale")

(* C25: a unit is at any time in the hands of at most one pool process and *)
(* only after it was handed out and before it has a result; a unit with a  *)
(* result is never taken up again; at the return every unit has run; and   *)
(* every file a pool process wrote in the directory of a unit was written  *)
(* for that unit.                                                          *)
C25_Owned ==
    \A u \in DOMAIN work_items :
        /\ Cardinality({w \in DOMAIN worker : worker[w].unit = u}) <= 1
        /\ (\E w \in DOMAIN worker : worker[w].unit = u) => (u <= task /\ ~Finished(u))
        /\ u > task => (launched[u] = << >> /\ ~Finished(u))
        /\ Len(launched[u]) <= Len(commands)
        /\ Returned => Finished(u)
        /\ \A n \in DOMAIN FilesOf(u) : FilesOf(u)[n].by \in {0, u}

C25_TakenOnce ==
    \A u \in Units :
        Finished(u) =>
            /\ outcome'[u] = outcome[u]
            /\ launched'[u] = launched[u]
            /\ exits'[u] = exits[u]
            /\ \A w \in DOMAIN worker : worker'[w].unit # u

C25_ExactlyOnceByOwner == [][C25_TakenOnce]_vars /\ []C25_Owned

(* C23: a pool process that waits for a child process is released by the   *)
(* exit of that process and by nothing else; while a pool process holds a  *)
(* unit calculate_batch has neither returned nor raised, so with a child   *)
(* process that never exits it never returns; and with two pool processes  *)
(* or more, the others still come to take every work item of the queue.    *)
C23_HeldStep ==
    \A w \in DOMAIN worker :
        worker[w].proc =>
            \/ worker'[w] = worker[w]
            \/ Len(exits'[worker[w].unit]) = Len(exits[worker[w].unit]) + 1

C23_Blocked == (\E w \in DOMAIN worker : worker[w].unit # 0) => pc = "imap"

C23_NoTimeout ==
    /\ [][C23_HeldStep]_vars
    /\ []C23_Blocked
    /\ (<>[](1 \in DOMAIN worker /\ worker[1].proc)) => []~(pc \in {"returned", "raised"})
    /\ (pc = "imap" /\ max_workers >= 2) ~> (task = Len(work_items))

C23_Witness ==
    /\ pc = "imap"
    /\ worker[1].proc
    /\ worker[1].unit = 1
    /\ task = 3
    /\ Finished(2)
    /\ Finished(3)
    /\ items = << >>

(* C22: calculate_single never raises; what it returns is the result of    *)
(* its unit, a SUCCESS exactly when every command of the unit ran and      *)
(* exited 0, and an ERROR for any failure, one of staging included.        *)
C22_SingleReturnsOutcome ==
    /\ pc # "raised"
    /\ pc = "returned" =>
           /\ ret.kind = "str"
           /\ ret.value = outcome[1]
           /\ ret.value.tag \in {"SUCCESS", "ERROR"}
           /\ ret.value.tag = "SUCCESS" <=> OwnChainClean(1)


(* the export file of unit u is there, under the name of its input *)
Exported(u) == xyz_files[u].name \in DOMAIN export.saved

(* the export pass is over and run_xtb_calculation has returned *)
ExportOver == pc = "workflow_done" /\ export.out_xyz /\ ret.kind = "dict"

(* C21: when the export pass is over, there is an export file for a unit   *)
(* exactly when its outcome is Success; the file is made of the first two  *)
(* lines of the unit's staged input and of the lines after the first two   *)
(* of the xtbopt.xyz the unit's own chain wrote; and between the return of *)
(* calculate_batch and the end of the workflow no command is launched.     *)
C21_ExportState ==
    ExportOver =>
        \A u \in Units :
            /\ Exported(u) <=> StartsWithSuccess(outcome[u])
            /\ Exported(u) =>
                   export.saved[xyz_files[u].name] =
                       [title |-> Content(0, xyz_files[u].dir),
                        coords |-> Content(u, "xtb")]

C21_ExportStep ==
    pc \in {"returned", "export"} => launched' = launched /\ exits' = exits /\ fs' = fs

C21_ExportExactlySuccessful == []C21_ExportState /\ [][C21_ExportStep]_vars

(* a directory of the output directory without a file named molecule_*.xyz *)
NoMoleculeFile(d) ==
    /\ fs[d].exists
    /\ "m1.xyz" \notin DOMAIN fs[d].files
    /\ "m2.xyz" \notin DOMAIN fs[d].files

(* C30: with out_xyz set, the export pass returns only if every directory  *)
(* of the output directory holds a file named molecule_*.xyz; it ends with *)
(* IndexError only on a directory that holds none, and then the workflow   *)
(* has failed although calculate_batch returned its summary of all units;  *)
(* without out_xyz no directory is looked at and the workflow returns.     *)
C30_ExportRaisesWithoutMoleculeFile ==
    /\ ExportOver => ~\E d \in MolDirs : NoMoleculeFile(d)
    /\ export.ended = "IndexError" =>
           /\ pc = "workflow_failed"
           /\ export.out_xyz
           /\ \E d \in MolDirs : NoMoleculeFile(d) /\ d \notin export.seen
           /\ ret.kind = "dict"
           /\ ret.value.total = Len(xyz_files)
           /\ Len(ret.value.results) = Len(xyz_files)
    /\ (pc = "workflow_failed" /\ ret.kind = "dict") => export.ended = "IndexError"
    /\ (pc \in {"workflow_done", "workflow_failed"} /\ ~export.out_xyz) =>
           export.seen = {} /\ export.saved = NoFiles /\ export.ended # "IndexError"

(* every unit succeeded, one export file is already written, and the pass  *)
(* raises on the directory of a file not named molecule_*.xyz              *)
C30_Witness ==
    /\ pc = "workflow_failed"
    /\ export.ended = "IndexError"
    /\ ret.kind = "dict"
    /\ ret.value.success = Len(xyz_files)
    /\ Len(xyz_files) >= 2
    /\ export.saved # NoFiles
    /\ \E u \in Units : xyz_files[u].name = "m3.xyz" /\ NoMoleculeFile(Stem("m3.xyz"))

====
